---- MODULE Spec2Model ----
(***************************************************************************)
(* Tea Shop API (src/afastapi.py): token issuance and verification, the    *)
(* auth gate, and the create / read / update / delete handlers over the    *)
(* tea table, with each request handled by its own worker thread.          *)
(*                                                                         *)
(* Time is counted in ticks, TicksPerSecond ticks to the second, so that   *)
(* the whole-second "exp" claim of a token and the sub-second clock that   *)
(* verification reads are both visible.                                    *)
(***************************************************************************)
EXTENDS Integers, Sequences, FiniteSets, TLC

\* ------------------------------------------------------------ bounds
MaxReq == 3             \* worker threads serving requests at once
MaxId == 2              \* largest tea id the model lets the table hand out
MaxEarly == 1           \* clock instants observed after start / after a window
TicksPerSecond == 2     \* clock resolution below one second

\* ------------------------------------------------------------ configuration
JWT_SECRET_KEY == "your-secret-key"
JWT_ALGORITHM == "HS256"
JWT_EXPIRATION_MINUTES == 30

\* timedelta(minutes=JWT_EXPIRATION_MINUTES), in seconds and in ticks
WindowSeconds == JWT_EXPIRATION_MINUTES * 60
WindowTicks == WindowSeconds * TicksPerSecond

\* The instants at which the clock is read: just after start, and around the
\* end of the validity window of a token issued just after start.
Instants == (0 .. MaxEarly) \cup (WindowTicks .. (WindowTicks + MaxEarly))

\* ------------------------------------------------------------ values
Usernames == {"admin", "guest"}
Passwords == {"password", "letmein"}
Keys == {JWT_SECRET_KEY, "other-key"}
Reqs == 1 .. MaxReq
TeaIds == 1 .. MaxId

\* Optional values: None is the empty set, Some(x) the singleton.
None == {}
Some(x) == {x}
The(s) == CHOOSE x \in s : TRUE

\* class User(SQLModel, table=True)
User == [id : 1 .. 2, username : Usernames, password : Passwords]

\* class Tea(SQLModel, table=True)
Tea == [id : TeaIds, name : {"Earl Grey", "Earl Grey Supreme", "Sencha"},
        origin : {"England", "Japan"}]

\* class TeaCreate(BaseModel): the request bodies the clients send
TeaCreate == { [name |-> "Earl Grey", origin |-> "England"],
               [name |-> "Earl Grey Supreme", origin |-> "England"],
               [name |-> "Sencha", origin |-> "Japan"] }

\* The user tables a database file can hold before startup.
UserTables == { {},
                {[id |-> 1, username |-> "admin", password |-> "password"],
                 [id |-> 2, username |-> "guest", password |-> "letmein"]} }

\* on_startup: a default user is created if the table holds none.
on_startup(table) ==
    IF table = {}
    THEN {[id |-> 1, username |-> "admin", password |-> "password"]}
    ELSE table

\* ------------------------------------------------------------ tokens
\* The "exp" values (whole seconds) a token can carry.
ExpSeconds == { (t \div TicksPerSecond) + WindowSeconds : t \in Instants }

\* A token's payload: a JSON object in which "sub" and "exp" may each be absent.
Payloads ==
    [sub : Usernames, exp : ExpSeconds] \cup [sub : Usernames]
        \cup [exp : ExpSeconds] \cup {[iss |-> "x"]}

\* A signed token: its payload and the key its signature was made with.
Tokens == [payload : Payloads, key : Keys]

\* HTTPAuthorizationCredentials: the bearer token of a request, or none.
Credentials == {None} \cup { Some(t) : t \in Tokens }

\* jwt.encode(to_encode, JWT_SECRET_KEY, algorithm=JWT_ALGORITHM)
jwt_encode(payload, key) == [payload |-> payload, key |-> key]

\* A variant of generate_jwt_token that leaves the timedelta out of "exp".
generate_jwt_token_no_window(data, t) ==
    jwt_encode([sub |-> data.sub, exp |-> t \div TicksPerSecond], JWT_SECRET_KEY)

\* A variant of generate_jwt_token that rounds "exp" up to the next whole second.
generate_jwt_token_round_up(data, t) ==
    jwt_encode([sub |-> data.sub,
                exp |-> ((t + TicksPerSecond - 1) \div TicksPerSecond) + WindowSeconds],
               JWT_SECRET_KEY)

\* generate_jwt_token(data) called at tick t: "exp" is utcnow() + 30 minutes,
\* written into the token as whole seconds (the fraction of a second is dropped).
generate_jwt_token(data, t) ==
    LET expire == (t \div TicksPerSecond) + WindowSeconds
        to_encode == [sub |-> data.sub, exp |-> expire]
    IN jwt_encode(to_encode, JWT_SECRET_KEY)

\* A variant of jwt_decode that lets a token through at the instant of its "exp".
jwt_decode_late(token, key, t) ==
    IF token.key # key
    THEN [error |-> "InvalidSignatureError", payload |-> None]
    ELSE IF "exp" \in DOMAIN token.payload
            /\ token.payload.exp * TicksPerSecond < t
         THEN [error |-> "ExpiredSignatureError", payload |-> None]
         ELSE [error |-> "", payload |-> Some(token.payload)]

\* A variant of jwt_decode that looks at "exp" before it verifies the signature.
jwt_decode_exp_first(token, key, t) ==
    IF "exp" \in DOMAIN token.payload /\ token.payload.exp * TicksPerSecond <= t
    THEN [error |-> "ExpiredSignatureError", payload |-> None]
    ELSE IF token.key # key
         THEN [error |-> "InvalidSignatureError", payload |-> None]
         ELSE [error |-> "", payload |-> Some(token.payload)]

\* jwt.decode(token, key, algorithms=[JWT_ALGORITHM]) read at tick t: the
\* signature is verified first, then "exp" if the payload carries one
\* (expired when exp <= now). The outcome is the payload or the error raised.
jwt_decode(token, key, t) ==
    IF token.key # key
    THEN [error |-> "InvalidSignatureError", payload |-> None]
    ELSE IF "exp" \in DOMAIN token.payload
            /\ token.payload.exp * TicksPerSecond <= t
         THEN [error |-> "ExpiredSignatureError", payload |-> None]
         ELSE [error |-> "", payload |-> Some(token.payload)]

\* ------------------------------------------------------------ responses
\* What a handler sends back: the status, the "detail" of an HTTPException,
\* and the body (a tea, the list of teas, an access token, a message).
Response(status, detail) ==
    [status |-> status, detail |-> detail, tea |-> None, teas |-> << >>,
     access_token |-> None, message |-> None]

HTTPException(status_code, detail) == Response(status_code, detail)

\* An exception that no handler catches: the framework answers 500.
ServerError == Response(500, "Internal Server Error")

\* security = HTTPBearer(): a request that carries no bearer credentials is
\* refused before get_current_user runs, with "Not authenticated"; the status
\* is 403 or 401 according to the release of the framework installed.
HTTPBearer_statuses == {401, 403}

\* ------------------------------------------------------------ auth gate
\* A variant of select_user without the where clause: the first user of the
\* table, whatever the username.
select_user_any(table, username) ==
    IF table = {} THEN {}
    ELSE {CHOOSE u \in table : \A v \in table : u.id <= v.id}

\* session.exec(select(User).where(User.username == username)).first()
select_user(table, username) == { u \in table : u.username = username }

\* The try block of get_current_user, run at tick t: the user found, or the
\* exception raised (its class, and for an HTTPException its detail).
get_current_user_try(token, table, t) ==
    LET decoded == jwt_decode(token, JWT_SECRET_KEY, t)
    IN IF decoded.error # ""
       THEN [raised |-> decoded.error, detail |-> "", user |-> None]
       ELSE LET payload == The(decoded.payload)
                username == IF "sub" \in DOMAIN payload
                            THEN Some(payload.sub) ELSE None
            IN IF username = None
               THEN [raised |-> "HTTPException",
                     detail |-> "Invalid token: no username found", user |-> None]
               ELSE LET user == select_user(table, The(username))
                    IN IF user = None
                       THEN [raised |-> "HTTPException", detail |-> "User not found",
                             user |-> None]
                       ELSE [raised |-> "", detail |-> "", user |-> user]

\* str(e) of an HTTPException raised with status 401
str_HTTPException(detail) ==
    CASE detail = "User not found" -> "401: User not found"
      [] detail = "Invalid token: no username found"
            -> "401: Invalid token: no username found"
      [] OTHER -> detail

\* f"Authentication error: {str(e)}"
authentication_error(text) ==
    CASE text = "401: User not found" -> "Authentication error: 401: User not found"
      [] text = "401: Invalid token: no username found"
            -> "Authentication error: 401: Invalid token: no username found"
      [] text = "(sqlite3.OperationalError) unable to open database file"
            -> "Authentication error: (sqlite3.OperationalError) unable to open database file"
      [] OTHER -> "Authentication error"

\* A variant of get_current_user without the except clause of
\* ExpiredSignatureError: the error, an InvalidTokenError too, meets the next clause.
get_current_user_no_expired_clause(token, table, t) ==
    LET r == get_current_user_try(token, table, t)
    IN CASE r.raised = "" ->
              [user |-> r.user, error |-> None]
         [] r.raised = "ExpiredSignatureError" ->
              [user |-> None,
               error |-> Some(HTTPException(401, "Invalid token: Signature has expired"))]
         [] r.raised = "InvalidSignatureError" ->
              [user |-> None,
               error |-> Some(HTTPException(401,
                              "Invalid token: Signature verification failed"))]
         [] OTHER ->
              [user |-> None,
               error |-> Some(HTTPException(401,
                              authentication_error(str_HTTPException(r.detail))))]

\* get_current_user(credentials) at tick t: the try block and its except
\* clauses. An HTTPException raised inside the try block is itself an
\* Exception, so the last clause catches and rewraps it.
get_current_user(token, table, t) ==
    LET r == get_current_user_try(token, table, t)
    IN CASE r.raised = "" ->
              [user |-> r.user, error |-> None]
         [] r.raised = "ExpiredSignatureError" ->
              [user |-> None, error |-> Some(HTTPException(401, "Token has expired"))]
         [] r.raised = "InvalidSignatureError" ->
              [user |-> None,
               error |-> Some(HTTPException(401,
                              "Invalid token: Signature verification failed"))]
         [] OTHER ->
              [user |-> None,
               error |-> Some(HTTPException(401,
                              authentication_error(str_HTTPException(r.detail))))]

\* str(e) of the exception that the engine raises when the database cannot
\* be reached.
str_OperationalError == "(sqlite3.OperationalError) unable to open database file"

\* get_current_user at tick t gets as far as the lookup of the user
\* (session.exec, line 106): the token decodes and carries a subject.
lookup_reached(token, t) ==
    /\ jwt_decode(token, JWT_SECRET_KEY, t).error = ""
    /\ "sub" \in DOMAIN token.payload

\* get_current_user(credentials) at tick t when the lookup of the user fails:
\* session.exec raises inside the try block, and the exception, neither an
\* ExpiredSignatureError nor an InvalidTokenError, meets the except Exception
\* clause.
get_current_user_store_failure(token, table, t) ==
    IF lookup_reached(token, t)
    THEN [user |-> None,
          error |-> Some(HTTPException(401, authentication_error(str_OperationalError)))]
    ELSE get_current_user(token, table, t)

\* ------------------------------------------------------------ login
\* A variant of login_for_access_token that does not compare the password.
login_for_access_token_any_password(username, password, table, t) ==
    LET user == select_user(table, username)
    IN IF user = None
       THEN HTTPException(401, "Incorrect username or password")
       ELSE [Response(200, "") EXCEPT
               !.access_token =
                   Some(generate_jwt_token([sub |-> The(user).username], t))]

\* login_for_access_token(username, password) at tick t
login_for_access_token(username, password, table, t) ==
    LET user == select_user(table, username)
    IN IF user = None \/ The(user).password # password
       THEN HTTPException(401, "Incorrect username or password")
       ELSE [Response(200, "") EXCEPT
               !.access_token =
                   Some(generate_jwt_token([sub |-> The(user).username], t))]

\* ------------------------------------------------------------ tea table
Ids(table) == { x.id : x \in table }

Max(S) == CHOOSE m \in S : \A x \in S : x <= m

\* A variant of next_id that numbers a new row by the count of rows.
next_id_by_count(table) == Cardinality(table) + 1

\* id: Optional[int] = Field(default=None, primary_key=True): an INTEGER
\* PRIMARY KEY without AUTOINCREMENT; the table gives a new row the largest
\* id in use plus one, and 1 when the table is empty.
next_id(table) == IF table = {} THEN 1 ELSE Max(Ids(table)) + 1

\* session.add(db_tea); session.commit()
insert_tea(table, body) ==
    [id |-> next_id(table), name |-> body.name, origin |-> body.origin]

\* session.get(Tea, tea_id)
session_get(table, tea_id) == { x \in table : x.id = tea_id }

\* The columns that tea.name = ...; tea.origin = ... changed from the loaded row.
changed_columns(loaded, body) ==
    { c \in {"name", "origin"} : loaded[c] # body[c] }

\* UPDATE tea SET <changed columns> WHERE id = tea_id
update_row(row, changed, body) ==
    [id |-> row.id,
     name |-> IF "name" \in changed THEN body.name ELSE row.name,
     origin |-> IF "origin" \in changed THEN body.origin ELSE row.origin]

\* A variant of select_all that fetches with .first(): at most one row.
select_first(table) ==
    IF table = {} THEN << >>
    ELSE << CHOOSE x \in table : \A y \in table : x.id <= y.id >>

\* select(Tea) ... .all(): the rows in rowid order
RECURSIVE select_all(_)
select_all(table) ==
    IF table = {} THEN << >>
    ELSE LET first == CHOOSE x \in table : \A y \in table : x.id <= y.id
         IN << first >> \o select_all(table \ {first})

\* ------------------------------------------------------------ state
VARIABLES
    now,        \* the clock, in ticks
    users,      \* the user table
    teas,       \* the tea table
    req,        \* per worker thread: the request it is serving and how far it got
    overlap,    \* history: per thread, the threads whose requests ran alongside its own
    deleted,    \* history: the ids of the rows that delete_tea has removed
    issued,     \* history: a token that login has issued, with the tick of its issue
    bridge      \* the tool bridge (src/aeg.py): how far it got, and its `token`

vars == << now, users, teas, req, overlap, deleted, issued, bridge >>

\* A worker thread with no request. The last field is history: whether a
\* store access made for the request has failed.
Idle ==
    [pc |-> "idle", op |-> "", credentials |-> None, tea_id |-> 0, body |-> None,
     username |-> "", password |-> "", current_user |-> None,
     loaded |-> None, db_tea |-> None, resp |-> None, store_failure |-> FALSE]

InFlight(r) == req[r].pc \notin {"idle", "done"}

\* Thread r takes up request q (a record of the fields the request sets).
Take(r, q) ==
    /\ req[r].pc = "idle"
    /\ req' = [req EXCEPT ![r] = q]
    /\ overlap' = [x \in Reqs |->
                     IF x = r THEN { y \in Reqs : InFlight(y) }
                     ELSE IF InFlight(x) /\ q.pc # "done"
                          THEN overlap[x] \cup {r} ELSE overlap[x]]

\* Thread r moves on within its request.
Step(r, q) ==
    /\ req' = [req EXCEPT ![r] = q]
    /\ UNCHANGED overlap

Respond(q, resp) == [q EXCEPT !.pc = "done", !.resp = Some(resp)]

\* Depends(get_current_user) over Depends(security): what the dependencies of
\* a request with these credentials can come to at tick t.
Depends_get_current_user(credentials, table, t) ==
    IF credentials = None
    THEN { [user |-> None, error |-> Some(HTTPException(st, "Not authenticated"))]
             : st \in HTTPBearer_statuses }
    ELSE { get_current_user(The(credentials), table, t) }

\* A request to an endpoint that requires authentication arrives at thread r:
\* it is answered at once when the dependencies raise, and otherwise the
\* handler's body is entered at `first`.
Authenticated(r, q, first) ==
    \E g \in Depends_get_current_user(q.credentials, users, now) :
        Take(r, IF g.error # None
                THEN Respond(q, The(g.error))
                ELSE [q EXCEPT !.pc = first, !.current_user = g.user])

Init ==
    /\ now = 0
    /\ users \in { on_startup(t) : t \in UserTables }
    /\ teas = {}
    /\ req = [r \in Reqs |-> Idle]
    /\ overlap = [r \in Reqs |-> {}]
    /\ deleted = {}
    /\ issued = None
    /\ bridge = [pc |-> "start", token |-> None]

\* ------------------------------------------------------------ actions
\* The clock moves on to a later instant.
Tick ==
    /\ \E t \in Instants : t > now /\ now' = t
    /\ UNCHANGED << users, teas, req, overlap, deleted, issued, bridge >>

\* POST /token. The history keeps the token issued when `observe` is set.
login(r, username, password, observe) ==
    LET resp == login_for_access_token(username, password, users, now)
    IN /\ Take(r, Respond([Idle EXCEPT !.op = "login", !.username = username,
                                       !.password = password], resp))
       /\ issued' = IF observe /\ resp.access_token # None
                    THEN Some([token |-> The(resp.access_token), at |-> now])
                    ELSE issued
       /\ UNCHANGED << now, users, teas, deleted, bridge >>

\* GET /teas
get_teas(r) ==
    /\ Take(r, Respond([Idle EXCEPT !.op = "get_teas"],
                       [Response(200, "") EXCEPT !.teas = select_all(teas)]))
    /\ UNCHANGED << now, users, teas, deleted, issued, bridge >>

\* POST /teas: the dependencies
create_tea(r, credentials, body) ==
    /\ Authenticated(r, [Idle EXCEPT !.op = "create_tea", !.credentials = credentials,
                                     !.body = Some(body)], "commit")
    /\ UNCHANGED << now, users, teas, deleted, issued, bridge >>

\* create_tea: session.add(db_tea); session.commit()
create_tea_commit(r) ==
    /\ req[r].op = "create_tea" /\ req[r].pc = "commit"
    /\ next_id(teas) <= MaxId
    /\ LET db_tea == insert_tea(teas, The(req[r].body))
       IN /\ teas' = teas \cup {db_tea}
          /\ Step(r, [req[r] EXCEPT !.pc = "refresh", !.db_tea = Some(db_tea.id)])
    /\ UNCHANGED << now, users, deleted, issued, bridge >>

\* create_tea: session.refresh(db_tea); return db_tea
create_tea_refresh(r) ==
    /\ req[r].op = "create_tea" /\ req[r].pc = "refresh"
    /\ LET row == session_get(teas, The(req[r].db_tea))
       IN Step(r, Respond(req[r], IF row = None THEN ServerError
                                  ELSE [Response(200, "") EXCEPT !.tea = row]))
    /\ UNCHANGED << now, users, teas, deleted, issued, bridge >>

\* PUT /teas/{tea_id}: the dependencies
update_tea(r, credentials, tea_id, body) ==
    /\ Authenticated(r, [Idle EXCEPT !.op = "update_tea", !.credentials = credentials,
                                     !.tea_id = tea_id, !.body = Some(body)], "get")
    /\ UNCHANGED << now, users, teas, deleted, issued, bridge >>

\* A variant of update_tea_get that stores the body as a new row when the
\* table holds no row of the id.
update_tea_get_upsert(r) ==
    /\ req[r].op = "update_tea" /\ req[r].pc = "get"
    /\ LET tea == session_get(teas, req[r].tea_id)
           body == The(req[r].body)
       IN IF tea = None
          THEN /\ teas' = teas \cup {[id |-> req[r].tea_id, name |-> body.name,
                                       origin |-> body.origin]}
               /\ Step(r, [req[r] EXCEPT !.pc = "refresh"])
          ELSE /\ Step(r, [req[r] EXCEPT !.pc = "commit", !.loaded = tea])
               /\ UNCHANGED teas
    /\ UNCHANGED << now, users, deleted, issued, bridge >>

\* update_tea: tea = session.get(Tea, tea_id); 404 if there is none
update_tea_get(r) ==
    /\ req[r].op = "update_tea" /\ req[r].pc = "get"
    /\ LET tea == session_get(teas, req[r].tea_id)
       IN Step(r, IF tea = None
                  THEN Respond(req[r], HTTPException(404, "Tea not found"))
                  ELSE [req[r] EXCEPT !.pc = "commit", !.loaded = tea])
    /\ UNCHANGED << now, users, teas, deleted, issued, bridge >>

\* update_tea: tea.name = ...; tea.origin = ...; session.add(tea);
\* session.commit(). The UPDATE names the columns that changed and is sent
\* only if some did; an UPDATE that matches no row raises (StaleDataError).
update_tea_commit(r) ==
    /\ req[r].op = "update_tea" /\ req[r].pc = "commit"
    /\ LET body == The(req[r].body)
           changed == changed_columns(The(req[r].loaded), body)
           row == session_get(teas, req[r].tea_id)
       IN IF changed = {}
          THEN /\ Step(r, [req[r] EXCEPT !.pc = "refresh", !.loaded = None])
               /\ UNCHANGED teas
          ELSE IF row = None
          THEN /\ Step(r, Respond([req[r] EXCEPT !.loaded = None], ServerError))
               /\ UNCHANGED teas
          ELSE /\ teas' = (teas \ row) \cup {update_row(The(row), changed, body)}
               /\ Step(r, [req[r] EXCEPT !.pc = "refresh", !.loaded = None])
    /\ UNCHANGED << now, users, deleted, issued, bridge >>

\* update_tea: session.refresh(tea); return tea
update_tea_refresh(r) ==
    /\ req[r].op = "update_tea" /\ req[r].pc = "refresh"
    /\ LET row == session_get(teas, req[r].tea_id)
       IN Step(r, Respond(req[r], IF row = None THEN ServerError
                                  ELSE [Response(200, "") EXCEPT !.tea = row]))
    /\ UNCHANGED << now, users, teas, deleted, issued, bridge >>

\* DELETE /teas/{tea_id}: the dependencies
delete_tea(r, credentials, tea_id) ==
    /\ Authenticated(r, [Idle EXCEPT !.op = "delete_tea", !.credentials = credentials,
                                     !.tea_id = tea_id], "get")
    /\ UNCHANGED << now, users, teas, deleted, issued, bridge >>

\* delete_tea: tea = session.get(Tea, tea_id); 404 if there is none
delete_tea_get(r) ==
    /\ req[r].op = "delete_tea" /\ req[r].pc = "get"
    /\ LET tea == session_get(teas, req[r].tea_id)
       IN Step(r, IF tea = None
                  THEN Respond(req[r], HTTPException(404, "Tea not found"))
                  ELSE [req[r] EXCEPT !.pc = "commit", !.loaded = tea])
    /\ UNCHANGED << now, users, teas, deleted, issued, bridge >>

\* delete_tea: session.delete(tea); session.commit(); return the message.
\* A DELETE that matches no row only warns.
delete_tea_commit(r) ==
    /\ req[r].op = "delete_tea" /\ req[r].pc = "commit"
    /\ teas' = teas \ session_get(teas, req[r].tea_id)
    /\ deleted' = deleted \cup Ids(session_get(teas, req[r].tea_id))
    /\ Step(r, Respond([req[r] EXCEPT !.loaded = None],
                       [Response(200, "") EXCEPT !.message = Some(req[r].tea_id)]))
    /\ UNCHANGED << now, users, issued, bridge >>

\* The response has been sent: the thread is free for the next request.
Retire(r) ==
    /\ req[r].pc = "done"
    /\ req' = [req EXCEPT ![r] = Idle]
    /\ overlap' = [x \in Reqs |-> IF x = r THEN {} ELSE overlap[x] \ {r}]
    /\ UNCHANGED << now, users, teas, deleted, issued, bridge >>

\* ------------------------------------------------------------ store failures
\* The endpoints that depend on get_current_user.
AuthOps == {"create_tea", "update_tea", "delete_tea"}

\* A request to an endpoint that requires authentication (create_tea,
\* update_tea or delete_tea) arrives at thread r, and the lookup of the user
\* made by get_current_user fails: the handler's body is not entered.
get_current_user_fails(r, op, credentials) ==
    /\ credentials # None
    /\ lookup_reached(The(credentials), now)
    /\ Take(r, Respond([Idle EXCEPT !.op = op, !.credentials = credentials,
                                    !.store_failure = TRUE],
                       The(get_current_user_store_failure(The(credentials), users,
                                                          now).error)))
    /\ UNCHANGED << now, users, teas, deleted, issued, bridge >>

\* The store access that thread r is about to make in the body of create_tea,
\* update_tea or delete_tea (session.get, session.commit, session.refresh)
\* fails: nothing is written, and no handler catches the exception.
session_fails(r) ==
    /\ req[r].pc \in {"get", "commit", "refresh"}
    /\ Step(r, Respond([req[r] EXCEPT !.loaded = None, !.store_failure = TRUE],
                       ServerError))
    /\ UNCHANGED << now, users, teas, deleted, issued, bridge >>

\* POST /token when the lookup of the user fails: the except clause of
\* login_for_access_token prints the exception and raises it again.
login_fails(r, username, password) ==
    /\ Take(r, Respond([Idle EXCEPT !.op = "login", !.username = username,
                                    !.password = password, !.store_failure = TRUE],
                       ServerError))
    /\ UNCHANGED << now, users, teas, deleted, issued, bridge >>

\* GET /teas when the select fails.
get_teas_fails(r) ==
    /\ Take(r, Respond([Idle EXCEPT !.op = "get_teas", !.store_failure = TRUE],
                       ServerError))
    /\ UNCHANGED << now, users, teas, deleted, issued, bridge >>

\* ------------------------------------------------------------ tool bridge
\* src/aeg.py at its start: token = get_jwt_token(), a POST /token with the
\* default username and password, served by thread r; the bridge keeps the
\* token of a 200 answer and exits on any other.
get_jwt_token(r) ==
    LET resp == login_for_access_token("admin", "password", users, now)
    IN /\ bridge.pc = "start"
       /\ Take(r, Respond([Idle EXCEPT !.op = "login", !.username = "admin",
                                       !.password = "password"], resp))
       /\ bridge' = IF resp.status = 200
                    THEN [pc |-> "serving", token |-> resp.access_token]
                    ELSE [pc |-> "exited", token |-> None]
       /\ issued' = IF resp.status = 200
                    THEN Some([token |-> The(resp.access_token), at |-> now])
                    ELSE issued
       /\ UNCHANGED << now, users, teas, deleted >>

\* The bridge forwards a tool call through its client, whose headers carry
\* "Authorization: Bearer {token}" on every request.
forward_get_teas(r) ==
    bridge.pc = "serving" /\ get_teas(r)

forward_create_tea(r, body) ==
    bridge.pc = "serving" /\ create_tea(r, bridge.token, body)

forward_update_tea(r, tea_id, body) ==
    bridge.pc = "serving" /\ update_tea(r, bridge.token, tea_id, body)

forward_delete_tea(r, tea_id) ==
    bridge.pc = "serving" /\ delete_tea(r, bridge.token, tea_id)

\* ------------------------------------------------------------ specifications
\* A token of the default user, issued at start.
AdminToken == generate_jwt_token([sub |-> "admin"], 0)

\* The credentials of a client that presents the token it got from login, or
\* no credentials.
HeldCredentials == {None} \cup { Some(i.token) : i \in issued }

\* The request bodies of the clients that are served one after the other:
\* two that differ in both columns.
SerialBodies == {b \in TeaCreate : b.name # "Earl Grey Supreme"}

\* One worker thread, so that the requests are served one after the other;
\* a client presents the token it got from login, or no credentials.
Next ==
    \/ Tick
    \/ \E u \in Usernames, p \in Passwords, o \in BOOLEAN : login(1, u, p, o)
    \/ get_teas(1)
    \/ \E c \in HeldCredentials, b \in SerialBodies : create_tea(1, c, b)
    \/ create_tea_commit(1)
    \/ create_tea_refresh(1)
    \/ \E c \in HeldCredentials, i \in TeaIds, b \in SerialBodies :
          update_tea(1, c, i, b)
    \/ update_tea_get(1)
    \/ update_tea_commit(1)
    \/ update_tea_refresh(1)
    \/ \E c \in HeldCredentials, i \in TeaIds : delete_tea(1, c, i)
    \/ delete_tea_get(1)
    \/ delete_tea_commit(1)
    \/ Retire(1)

Spec == Init /\ [][Next]_vars

\* One worker thread; the clients present any credentials, name the first id
\* and send bodies that differ in one column.
AuthBodies == {b \in TeaCreate : b.origin = "England"}

NextAuth ==
    \/ Tick
    \/ \E u \in Usernames, p \in Passwords : login(1, u, p, FALSE)
    \/ get_teas(1)
    \/ \E c \in Credentials, b \in AuthBodies : create_tea(1, c, b)
    \/ create_tea_commit(1)
    \/ create_tea_refresh(1)
    \/ \E c \in Credentials, b \in AuthBodies : update_tea(1, c, 1, b)
    \/ update_tea_get(1)
    \/ update_tea_commit(1)
    \/ update_tea_refresh(1)
    \/ \E c \in Credentials : delete_tea(1, c, 1)
    \/ delete_tea_get(1)
    \/ delete_tea_commit(1)
    \/ Retire(1)

SpecAuth == Init /\ [][NextAuth]_vars

\* MaxReq worker threads, each serving one request that changes the tea table,
\* so that the requests are served concurrently, within one instant of the
\* clock; the clients present the default user's token.
ConcurrentBodies == {b \in TeaCreate : b.origin = "England"}

NextConcurrent ==
    \/ \E r \in Reqs, b \in ConcurrentBodies : create_tea(r, Some(AdminToken), b)
    \/ \E r \in Reqs : create_tea_commit(r)
    \/ \E r \in Reqs : create_tea_refresh(r)
    \/ \E r \in Reqs, b \in ConcurrentBodies : update_tea(r, Some(AdminToken), 1, b)
    \/ \E r \in Reqs : update_tea_get(r)
    \/ \E r \in Reqs : update_tea_commit(r)
    \/ \E r \in Reqs : update_tea_refresh(r)
    \/ \E r \in Reqs : delete_tea(r, Some(AdminToken), 1)
    \/ \E r \in Reqs : delete_tea_get(r)
    \/ \E r \in Reqs : delete_tea_commit(r)

SpecConcurrent == Init /\ [][NextConcurrent]_vars

\* One worker thread and a store that can fail at any access; the clients
\* present no credentials, the default user's token, or a token signed with
\* another key, name the first id and send one body.
StoreCredentials ==
    {None, Some(AdminToken), Some(jwt_encode(AdminToken.payload, "other-key"))}

StoreBodies == {b \in TeaCreate : b.name = "Earl Grey"}

NextStore ==
    \/ Tick
    \/ \E u \in Usernames, p \in Passwords : login(1, u, p, FALSE)
    \/ \E u \in Usernames, p \in Passwords : login_fails(1, u, p)
    \/ get_teas(1)
    \/ get_teas_fails(1)
    \/ \E o \in AuthOps, c \in StoreCredentials : get_current_user_fails(1, o, c)
    \/ \E c \in StoreCredentials, b \in StoreBodies : create_tea(1, c, b)
    \/ create_tea_commit(1)
    \/ create_tea_refresh(1)
    \/ \E c \in StoreCredentials, b \in StoreBodies : update_tea(1, c, 1, b)
    \/ update_tea_get(1)
    \/ update_tea_commit(1)
    \/ update_tea_refresh(1)
    \/ \E c \in StoreCredentials : delete_tea(1, c, 1)
    \/ delete_tea_get(1)
    \/ delete_tea_commit(1)
    \/ session_fails(1)
    \/ Retire(1)

SpecStore == Init /\ [][NextStore]_vars

\* One worker thread, and the tool bridge as the only client: it starts at
\* some instant and forwards tool calls from then on.
NextBridge ==
    \/ Tick
    \/ get_jwt_token(1)
    \/ forward_get_teas(1)
    \/ \E b \in SerialBodies : forward_create_tea(1, b)
    \/ create_tea_commit(1)
    \/ create_tea_refresh(1)
    \/ \E b \in SerialBodies : forward_update_tea(1, 1, b)
    \/ update_tea_get(1)
    \/ update_tea_commit(1)
    \/ update_tea_refresh(1)
    \/ forward_delete_tea(1, 1)
    \/ delete_tea_get(1)
    \/ delete_tea_commit(1)
    \/ Retire(1)

SpecBridge == Init /\ [][NextBridge]_vars

\* ------------------------------------------------------------ properties
\* Thread r takes up a request in this step.
Taken(r) == req[r].pc = "idle" /\ req'[r].pc # "idle"

StoredUsernames(table) == { u.username : u \in table }

\* The credentials do not pass the auth gate at tick t: there is no token, or
\* the token is badly signed, or expired, or its subject is no stored user.
FailsGate(credentials, table, t) ==
    \/ credentials = None
    \/ LET token == The(credentials)
       IN \/ token.key # JWT_SECRET_KEY
          \/ /\ "exp" \in DOMAIN token.payload
             /\ token.payload.exp * TicksPerSecond <= t
          \/ "sub" \notin DOMAIN token.payload
          \/ token.payload.sub \notin StoredUsernames(table)

\* C1: a create, update or delete request whose credentials do not pass the
\* auth gate is answered 401 and leaves the tea table as it was, and the tea
\* table changes only by the step of a request that has authenticated.
C1_UnauthenticatedRejected ==
    [][ /\ \A r \in Reqs :
             (Taken(r) /\ req'[r].op \in AuthOps
                 /\ FailsGate(req'[r].credentials, users, now))
             => /\ req'[r].pc = "done"
                /\ The(req'[r].resp).status = 401
                /\ teas' = teas
        /\ teas' # teas => \E r \in Reqs : req[r].current_user # None
      ]_vars

\* C2: login with a stored username and password returns a token; the auth
\* gate resolves the token to the user of that username at the tick of the
\* login, and at every later tick before the token's expiry.
C2_LoginThenAuthenticate ==
    [][ \A r \in Reqs :
          (/\ req'[r].op = "login" /\ req'[r].pc = "done"
           /\ \E u \in users : u.username = req'[r].username
                                  /\ u.password = req'[r].password)
          => LET resp == The(req'[r].resp)
                 token == The(resp.access_token)
                 accepted == [user |-> select_user(users, req'[r].username),
                              error |-> None]
             IN /\ resp.status = 200
                /\ resp.access_token # None
                /\ Taken(r) => get_current_user(token, users, now) = accepted
                /\ now' < token.payload.exp * TicksPerSecond
                      => get_current_user(token, users', now') = accepted
      ]_vars

\* C2 witness: a login has returned a token and the clock has moved on since,
\* short of the token's expiry.
C2_Witness ==
    \E r \in Reqs :
        /\ req[r].op = "login" /\ req[r].pc = "done"
        /\ The(req[r].resp).access_token # None
        /\ 0 < now
        /\ now < The(The(req[r].resp).access_token).payload.exp * TicksPerSecond

\* C3: the id that create assigns is neither the id of a row of the table nor
\* the id of a row that has been deleted.
C3_IdNeverReused ==
    [][ \A r \in Reqs :
          (req[r].op = "create_tea" /\ req[r].pc = "commit" /\ req'[r].pc = "refresh")
          => The(req'[r].db_tea) \notin (Ids(teas) \cup deleted)
      ]_vars

\* C4: the list after a create holds exactly one record more than the list
\* before it, with the given name and origin and an id that no earlier record
\* has; the earlier records are listed unchanged, and create returns the
\* record as stored.
C4_CreateThenList ==
    [][ \A r \in Reqs :
          /\ (req[r].op = "create_tea" /\ req[r].pc = "commit"
                 /\ req'[r].pc = "refresh")
             => LET before == select_all(teas)
                    after == select_all(teas')
                    body == The(req[r].body)
                    new == teas' \ teas
                IN /\ Len(after) = Len(before) + 1
                   /\ Cardinality(new) = 1
                   /\ \A i \in 1 .. Len(before) :
                         \E j \in 1 .. Len(after) : after[j] = before[i]
                   /\ \A x \in new :
                         /\ x.name = body.name /\ x.origin = body.origin
                         /\ x.id \notin Ids(teas)
                         /\ \E j \in 1 .. Len(after) : after[j] = x
                         /\ req'[r].db_tea = Some(x.id)
          /\ (req[r].op = "create_tea" /\ req[r].pc = "refresh"
                 /\ req'[r].pc = "done")
             => LET resp == The(req'[r].resp)
                    body == The(req[r].body)
                IN /\ resp.status = 200
                   /\ resp.tea = { x \in teas' : x.id = The(req[r].db_tea) }
                   /\ resp.tea = { [id |-> The(req[r].db_tea), name |-> body.name,
                                    origin |-> body.origin] }
      ]_vars

\* C4 witness: a create has answered with its record and the table holds two rows.
C4_Witness ==
    \E r \in Reqs :
        /\ req[r].op = "create_tea" /\ req[r].pc = "done"
        /\ The(req[r].resp).status = 200
        /\ The(req[r].resp).tea \subseteq teas
        /\ Cardinality(teas) = 2

\* C5: two create requests that are served concurrently and both succeed
\* are answered with records of different ids.
C5_ConcurrentCreatesDistinct ==
    \A r, q \in Reqs :
        (/\ r # q /\ q \in overlap[r]
         /\ req[r].op = "create_tea" /\ req[r].pc = "done"
         /\ req[q].op = "create_tea" /\ req[q].pc = "done"
         /\ The(req[r].resp).status = 200 /\ The(req[q].resp).status = 200)
        => The(The(req[r].resp).tea).id # The(The(req[q].resp).tea).id

\* C6: an authenticated update or delete ends in success or in 404, and an
\* update that has read its row as present writes while the row is still there.
C6_UpdateDeleteAtomic ==
    \A r \in Reqs :
        (req[r].op \in {"update_tea", "delete_tea"} /\ req[r].current_user # None)
        => /\ req[r].pc = "done" => The(req[r].resp).status \in {200, 404}
           /\ (req[r].op = "update_tea" /\ req[r].pc = "commit")
                 => session_get(teas, req[r].tea_id) # None

\* The token carries "exp" and the clock at tick t has reached it.
Expired(token, t) ==
    "exp" \in DOMAIN token.payload /\ token.payload.exp * TicksPerSecond <= t

\* Thread r takes up, in this step, a request to an authenticated endpoint
\* that carries a token.
TakenWithToken(r) ==
    Taken(r) /\ req'[r].op \in AuthOps /\ req'[r].credentials # None

\* C7 as stated: a token whose expiry has passed fails with "Token has
\* expired", whether or not its signature verifies.
C7_ExpiredAlwaysExpired ==
    [][ \A r \in Reqs :
          (TakenWithToken(r) /\ Expired(The(req'[r].credentials), now))
          => /\ req'[r].pc = "done"
             /\ The(req'[r].resp) = HTTPException(401, "Token has expired")
      ]_vars

\* C7 as amended: a token whose expiry has passed fails with "Token has
\* expired" when its signature verifies, and with the invalid-token failure
\* when it does not.
C7_ExpiredWhenSigned ==
    [][ \A r \in Reqs :
          (TakenWithToken(r) /\ Expired(The(req'[r].credentials), now))
          => /\ req'[r].pc = "done"
             /\ The(req'[r].resp) =
                  IF The(req'[r].credentials).key = JWT_SECRET_KEY
                  THEN HTTPException(401, "Token has expired")
                  ELSE HTTPException(401, "Invalid token: Signature verification failed")
      ]_vars

\* C7 witness: a request with a correctly signed token that carries no
\* subject, past its expiry, has been answered "Token has expired".
C7_Witness ==
    \E r \in Reqs :
        /\ req[r].op \in AuthOps /\ req[r].pc = "done"
        /\ req[r].credentials # None
        /\ The(req[r].credentials).key = JWT_SECRET_KEY
        /\ "sub" \notin DOMAIN The(req[r].credentials).payload
        /\ Expired(The(req[r].credentials), now)
        /\ The(req[r].resp).detail = "Token has expired"

\* C8: a token signed with another key fails with the invalid-token failure,
\* whatever subject and expiry it carries, and resolves to no user.
C8_WrongKeyMalformed ==
    [][ \A r \in Reqs :
          (TakenWithToken(r) /\ The(req'[r].credentials).key # JWT_SECRET_KEY)
          => /\ req'[r].pc = "done"
             /\ req'[r].current_user = None
             /\ The(req'[r].resp) =
                  HTTPException(401, "Invalid token: Signature verification failed")
             /\ teas' = teas
      ]_vars

\* C8 witness: a request with a token signed with another key, past its
\* expiry and naming a stored user, has been answered with the invalid-token
\* failure.
C8_Witness ==
    \E r \in Reqs :
        /\ req[r].op \in AuthOps /\ req[r].pc = "done"
        /\ req[r].credentials # None
        /\ The(req[r].credentials).key # JWT_SECRET_KEY
        /\ Expired(The(req[r].credentials), now)
        /\ "sub" \in DOMAIN The(req[r].credentials).payload
        /\ The(req[r].credentials).payload.sub \in StoredUsernames(users)
        /\ The(req[r].resp).detail = "Invalid token: Signature verification failed"

\* C9: a correctly signed token that lacks the subject or the expiry does not
\* authenticate: the request is answered 401.
C9_MissingClaimRejected ==
    [][ \A r \in Reqs :
          (/\ TakenWithToken(r)
           /\ The(req'[r].credentials).key = JWT_SECRET_KEY
           /\ \/ "sub" \notin DOMAIN The(req'[r].credentials).payload
              \/ "exp" \notin DOMAIN The(req'[r].credentials).payload)
          => /\ req'[r].pc = "done"
             /\ req'[r].current_user = None
             /\ The(req'[r].resp).status = 401
      ]_vars

\* A token that login issued at tick `at` is valid up to `expiry`: the gate
\* accepts it before that tick and answers "Token has expired" from it on,
\* in every state and for every request that presents it, as long as its
\* subject is a stored user.
ValidUntil(i, expiry) ==
    i.token.payload.sub \in StoredUsernames(users)
    => /\ get_current_user(i.token, users', now') =
            IF now' < expiry
            THEN [user |-> select_user(users', i.token.payload.sub), error |-> None]
            ELSE [user |-> None, error |-> Some(HTTPException(401, "Token has expired"))]
       /\ \A r \in Reqs :
            (TakenWithToken(r) /\ req'[r].credentials = Some(i.token))
            => IF now < expiry
               THEN /\ req'[r].pc # "done"
                    /\ req'[r].current_user = select_user(users, i.token.payload.sub)
               ELSE /\ req'[r].pc = "done"
                    /\ The(req'[r].resp) = HTTPException(401, "Token has expired")

\* C10 as stated: a token issued at tick t is valid up to t + 30 minutes,
\* whatever other operations are served meanwhile.
C10_ValidForWindow ==
    [][ \A i \in issued' : ValidUntil(i, i.at + WindowTicks) ]_vars

\* C10 as amended: a token issued at tick t is valid up to the whole second
\* of t plus 30 minutes, whatever other operations are served meanwhile.
C10_ValidForWindowOfWholeSecond ==
    [][ \A i \in issued' :
          ValidUntil(i, (i.at \div TicksPerSecond) * TicksPerSecond + WindowTicks)
      ]_vars

\* C10 witness: a token issued within a second, not at its start, has been
\* refused as expired 30 minutes after the start of that second, the table
\* holding a row created with it.
C10_Witness ==
    \E i \in issued, r \in Reqs :
        /\ i.at % TicksPerSecond # 0
        /\ now = (i.at \div TicksPerSecond) * TicksPerSecond + WindowTicks
        /\ now < i.at + WindowTicks
        /\ req[r].op \in AuthOps /\ req[r].pc = "done"
        /\ req[r].credentials = Some(i.token)
        /\ The(req[r].resp).detail = "Token has expired"
        /\ teas # {}

\* C11: once delete has removed the row of an id, no row has that id again,
\* and every authenticated update or delete that names the id afterwards is
\* answered 404 when it looks the row up.
C11_DeletedStaysAbsent ==
    [][ /\ deleted' \cap Ids(teas') = {}
        /\ \A r \in Reqs :
             (/\ req[r].op \in {"update_tea", "delete_tea"}
              /\ req[r].pc = "get" /\ req'[r].pc # "get"
              /\ req[r].tea_id \in deleted)
             => /\ req'[r].pc = "done"
                /\ The(req'[r].resp).status = 404
      ]_vars

\* C12: an authenticated update that names an id of no row is answered 404
\* "Tea not found" when it is served, and while it is being served neither
\* table changes: no row of that id appears and no row is modified.
C12_UpdateAbsentNotFound ==
    [][ \A r \in Reqs :
          (/\ req[r].op = "update_tea" /\ req[r].pc = "get"
           /\ req[r].current_user # None
           /\ req[r].tea_id \notin Ids(teas))
          => /\ teas' = teas
             /\ users' = users
             /\ req'[r] # req[r]
                   => /\ req'[r].pc = "done"
                      /\ The(req'[r].resp) = HTTPException(404, "Tea not found")
      ]_vars

\* C12 witness: an update of an id of no row has been answered 404 while the
\* table holds a row of another id.
C12_Witness ==
    \E r \in Reqs :
        /\ req[r].op = "update_tea" /\ req[r].pc = "done"
        /\ req[r].current_user # None
        /\ The(req[r].resp).status = 404
        /\ req[r].tea_id \notin Ids(teas)
        /\ teas # {}

\* C13: the auth gate lets a token through only if its signature verifies
\* with JWT_SECRET_KEY, its expiry has not passed and its subject is the
\* username of a stored user, and then resolves it to that user; a correctly
\* signed, unexpired token whose subject is no stored username is answered
\* 401 with the user-not-found reason.
C13_AcceptedOnlyIfValid ==
    [][ \A r \in Reqs :
          TakenWithToken(r)
          => LET token == The(req'[r].credentials)
                 signed == token.key = JWT_SECRET_KEY
                 named == "sub" \in DOMAIN token.payload
             IN /\ req'[r].current_user # None
                     => /\ signed
                        /\ ~Expired(token, now)
                        /\ named
                        /\ token.payload.sub \in StoredUsernames(users)
                        /\ req'[r].current_user = select_user(users, token.payload.sub)
                /\ (/\ signed /\ ~Expired(token, now) /\ named
                    /\ token.payload.sub \notin StoredUsernames(users))
                     => /\ req'[r].pc = "done"
                        /\ req'[r].current_user = None
                        /\ The(req'[r].resp) =
                             HTTPException(401, "Authentication error: 401: User not found")
                        /\ teas' = teas
      ]_vars

\* C13 witness: a request with a correctly signed, unexpired token whose
\* subject is no stored username has been answered 401, user not found.
C13_Witness ==
    \E r \in Reqs :
        /\ req[r].op \in AuthOps /\ req[r].pc = "done"
        /\ req[r].credentials # None
        /\ The(req[r].credentials).key = JWT_SECRET_KEY
        /\ "exp" \in DOMAIN The(req[r].credentials).payload
        /\ ~Expired(The(req[r].credentials), now)
        /\ "sub" \in DOMAIN The(req[r].credentials).payload
        /\ The(req[r].credentials).payload.sub \notin StoredUsernames(users)
        /\ The(req[r].resp).status = 401
        /\ The(req[r].resp).detail = "Authentication error: 401: User not found"

\* C14: a request during which a store access failed, the lookup of the user
\* made by the auth gate included, is answered 500.
C14_StoreFailureInternal ==
    \A r \in Reqs :
        (req[r].pc = "done" /\ req[r].store_failure)
        => The(req[r].resp).status = 500

\* C15: an id comes to have a row only by the commit of an authenticated
\* create that is answered 200, and comes to have none only by an
\* authenticated delete of that id that is answered 200; login, list and
\* every request that is not answered 200 have changed the state of no id.
C15_Lifecycle ==
    [][ /\ \A i \in Ids(teas') \ Ids(teas) :
             \E r \in Reqs :
                 /\ req[r].op = "create_tea" /\ req[r].pc = "commit"
                 /\ req[r].current_user # None
                 /\ req'[r].db_tea = Some(i)
        /\ \A i \in Ids(teas) \ Ids(teas') :
             \E r \in Reqs :
                 /\ req[r].op = "delete_tea" /\ req[r].pc = "commit"
                 /\ req[r].current_user # None
                 /\ req[r].tea_id = i
                 /\ req'[r].pc = "done" /\ The(req'[r].resp).status = 200
        /\ \A r \in Reqs :
             (/\ req[r].pc # "done" /\ req'[r].pc = "done"
              /\ \/ req'[r].op \in {"login", "get_teas"}
                 \/ The(req'[r].resp).status # 200)
             => /\ Ids(teas') = Ids(teas)
                /\ req'[r].db_tea = None
      ]_vars

\* C16: login with a username that is not stored, or with a password other
\* than the one stored for the username, is answered 401 and carries no
\* token; a token is returned only when both match a stored user, and it
\* names that user.
C16_LoginRejectsBadPair ==
    [][ \A r \in Reqs :
          (Taken(r) /\ req'[r].op = "login")
          => LET resp == The(req'[r].resp)
                 matches == \E u \in users : /\ u.username = req'[r].username
                                             /\ u.password = req'[r].password
             IN /\ req'[r].pc = "done"
                /\ ~matches
                     => /\ resp = HTTPException(401, "Incorrect username or password")
                        /\ resp.access_token = None
                        /\ issued' = issued
                /\ resp.access_token # None
                     => /\ matches
                        /\ resp.status = 200
                        /\ The(resp.access_token).payload.sub = req'[r].username
                        /\ The(resp.access_token).key = JWT_SECRET_KEY
      ]_vars

\* C16 witness: a login with a stored username and the password of another
\* stored user has been answered 401 without a token.
C16_Witness ==
    \E r \in Reqs :
        /\ req[r].op = "login" /\ req[r].pc = "done"
        /\ req[r].username \in StoredUsernames(users)
        /\ \E u \in users : u.username # req[r].username /\ u.password = req[r].password
        /\ The(req[r].resp).status = 401
        /\ The(req[r].resp).access_token = None

\* C17: list is answered 200 in every state, with or without a token; the
\* answer holds each row of the tea table once and nothing else (the empty
\* sequence for the empty table), in the order of the ids, so that it is
\* the same for two calls between which the table has not changed; and list
\* changes neither table.
C17_ListReturnsAll ==
    [][ \A r \in Reqs :
          (Taken(r) /\ req'[r].op = "get_teas")
          => LET resp == The(req'[r].resp)
                 listed == resp.teas
             IN /\ req'[r].pc = "done"
                /\ req'[r].current_user = None
                /\ resp.status = 200
                /\ Len(listed) = Cardinality(teas)
                /\ { listed[i] : i \in 1 .. Len(listed) } = teas
                /\ \A i, j \in 1 .. Len(listed) : i < j => listed[i].id < listed[j].id
                /\ teas' = teas
                /\ users' = users
      ]_vars

\* C17 witness: list has been answered with the two rows of the table.
C17_Witness ==
    \E r \in Reqs :
        /\ req[r].op = "get_teas" /\ req[r].pc = "done"
        /\ The(req[r].resp).status = 200
        /\ Len(The(req[r].resp).teas) = 2
        /\ Cardinality(teas) = 2

\* C18: an update that is answered 200 has left the table with as many rows
\* as before and with the row of its id holding exactly the given name and
\* origin, which is the row it returns; a delete that is answered 200 has
\* removed the row of its id and no other; both leave every other row and
\* the user table as they were.
C18_OnlyThatRecord ==
    [][ \A r \in Reqs :
          /\ (req[r].op = "update_tea" /\ req[r].pc = "commit" /\ req'[r].pc = "refresh")
             => LET body == The(req[r].body)
                    row == [id |-> req[r].tea_id, name |-> body.name,
                            origin |-> body.origin]
                IN /\ row \in teas'
                   /\ Cardinality(teas') = Cardinality(teas)
                   /\ Ids(teas') = Ids(teas)
                   /\ \A x \in teas : x.id # req[r].tea_id => x \in teas'
                   /\ users' = users
          /\ (req[r].op = "update_tea" /\ req[r].pc = "refresh"
                 /\ req'[r].pc = "done" /\ The(req'[r].resp).status = 200)
             => LET body == The(req[r].body)
                IN /\ The(req'[r].resp).tea = {[id |-> req[r].tea_id, name |-> body.name,
                                                origin |-> body.origin]}
                   /\ teas' = teas /\ users' = users
          /\ (req[r].op = "delete_tea" /\ req[r].pc = "commit" /\ req'[r].pc = "done"
                 /\ The(req'[r].resp).status = 200)
             => /\ teas' = { x \in teas : x.id # req[r].tea_id }
                /\ Cardinality(teas') = Cardinality(teas) - 1
                /\ The(req'[r].resp).message = Some(req[r].tea_id)
                /\ users' = users
      ]_vars

\* C19: an update or delete request whose credentials do not pass the auth
\* gate is answered 401 before the row of its id is looked up, whether the
\* table holds such a row or not, and 404 is answered only to a request
\* that has authenticated.
C19_GateBeforeLookup ==
    [][ \A r \in Reqs :
          /\ (/\ Taken(r) /\ req'[r].op \in {"update_tea", "delete_tea"}
              /\ FailsGate(req'[r].credentials, users, now))
             => /\ req'[r].pc = "done"
                /\ req'[r].loaded = None
                /\ The(req'[r].resp).status = 401
          /\ (/\ req[r].pc # "done" /\ req'[r].pc = "done"
              /\ req'[r].op \in {"update_tea", "delete_tea"}
              /\ The(req'[r].resp).status = 404)
             => req[r].current_user # None
      ]_vars

\* C20: the bridge logs in once, at its start, and from then on its token
\* never changes and no other login is made; every request it forwards
\* carries that token; a create it forwards is authorised only while the
\* token is unexpired, and a create forwarded 30 minutes or more after the
\* start is answered 401 "Token has expired".
C20_BridgeTokenOnce ==
    [][ /\ bridge.pc # "start" => bridge' = bridge
        /\ bridge'.pc = "serving"
              => /\ issued' # None
                 /\ \A i \in issued' : bridge'.token = Some(i.token)
        /\ \A r \in Reqs :
             /\ (Taken(r) /\ req'[r].op = "login") => bridge.pc = "start"
             /\ (Taken(r) /\ req'[r].op \in AuthOps)
                => /\ bridge.pc = "serving"
                   /\ req'[r].credentials = bridge.token
             /\ (Taken(r) /\ req'[r].op = "create_tea")
                => \A i \in issued :
                      /\ req'[r].current_user # None => ~Expired(i.token, now)
                      /\ now >= i.at + WindowTicks
                            => /\ req'[r].pc = "done"
                               /\ The(req'[r].resp) =
                                    HTTPException(401, "Token has expired")
      ]_vars

\* C20 witness: the bridge started within a second, not at its start; a
\* create it forwarded has stored a row, and a create it forwarded 30
\* minutes after its start has been answered "Token has expired".
C20_Witness ==
    \E i \in issued, r \in Reqs :
        /\ bridge = [pc |-> "serving", token |-> Some(i.token)]
        /\ i.at % TicksPerSecond # 0
        /\ now >= i.at + WindowTicks
        /\ req[r].op = "create_tea" /\ req[r].pc = "done"
        /\ req[r].credentials = bridge.token
        /\ The(req[r].resp).detail = "Token has expired"
        /\ teas # {}

====
